---- MODULE Spec2Model ----
(***************************************************************************)
(* pingmon: the sampling loop of src/pingmon.py (main, lines 223-293) with *)
(* the pure rendering functions it calls.                                  *)
(*                                                                         *)
(* Numbers.  Python floats are modelled by integers: latencies in ms, CPU  *)
(* and memory in percent, I/O counters in bytes, clock readings in tenths  *)
(* of a second (interval 10 = 1.0 s).  Float division followed by int()    *)
(* is modelled by exact truncating division.                               *)
(*                                                                         *)
(* Optional values.  Python's None is the empty tuple <<>> and a present   *)
(* value x is the 1-tuple <<x>>, so that "v is None" is a comparison TLC   *)
(* can evaluate between values of one kind.                                *)
(***************************************************************************)
EXTENDS Integers, Sequences, FiniteSets, TLC

\* ---- program constants (src/pingmon.py:19-25) ----
HISTORY_SIZE == 30
VITALS_SPARK_SIZE == 10
HIGH_LATENCY_MS == 100
PANEL_WIDTH == 58
\* index of DROP_CHAR in the glyph alphabet: SPARK_CHARS are glyphs 0..8
DROP_CHAR == 9

\* ---- bounds of the model ----
\* ticks of the loop explored with the full input sets
MaxTicks == 2
\* ticks of the long scenario (beyond HISTORY_SIZE, so that every buffer evicts)
MaxLongTicks == 32
\* failed pings the long scenario may contain
MaxBad == 1

\* ---- optional values ----
None == <<>>
Some(x) == <<x>>
IsNone(o) == o = <<>>
Val(o) == o[1]

\* ---- Python builtins ----
Max2(a, b) == IF a >= b THEN a ELSE b
Min2(a, b) == IF a <= b THEN a ELSE b
Max3(a, b, c) == Max2(Max2(a, b), c)
\* int(n / d) for d > 0: truncation toward zero
Trunc(n, d) == IF n >= 0 THEN n \div d ELSE -((-n) \div d)
\* max() of a non-empty sequence of numbers
RECURSIVE MaxOf(_)
MaxOf(s) == IF Len(s) = 1 THEN s[1] ELSE Max2(s[1], MaxOf(Tail(s)))
Last(s) == s[Len(s)]
\* [f(x) for x in s if P(x)] for P = "is not None", f = the value
RECURSIVE NotNone(_)
NotNone(s) ==
  IF s = <<>> THEN <<>>
  ELSE IF IsNone(s[1]) THEN NotNone(Tail(s))
  ELSE <<Val(s[1])>> \o NotNone(Tail(s))
\* " " * n, as unstyled cells of glyph 0
Blanks(n) == [i \in 1..n |-> [glyph |-> 0, style |-> "none"]]

\* ---- collections.deque(maxlen=...) ----
\* a variant that, when full, refuses the new sample instead of evicting the oldest
DequeAppendKeepOld(d, x, maxlen) ==
  IF Len(d) >= maxlen THEN d ELSE Append(d, x)
\* deque.append on a deque of capacity maxlen: append at the tail, and when
\* the deque was full discard the element at the head
DequeAppend(d, x, maxlen) ==
  IF Len(d) >= maxlen THEN Append(Tail(d), x) ELSE Append(d, x)

\* ---- run_ping (lines 30-44) ----
\* What the ping subprocess did: exc is the exception subprocess.run raised
\* ("none" when it returned), time is the number after "time=" in stdout when
\* the regular expression matches and None when it does not (no reply,
\* unreachable host, malformed output).
\* a variant whose except clause names TimeoutExpired only
run_pingTimeoutOnly(o) ==
  IF o.exc = "TimeoutExpired" THEN [raised |-> FALSE, value |-> None]
  ELSE IF o.exc # "none" THEN [raised |-> TRUE, value |-> None]
  ELSE [raised |-> FALSE, value |-> o.time]
\* the value returned to the caller, or raised = TRUE when an exception leaves
\* the function
run_ping(o) ==
  IF o.exc \in {"TimeoutExpired", "OSError"} THEN [raised |-> FALSE, value |-> None]
  ELSE IF o.exc # "none" THEN [raised |-> TRUE, value |-> None]
  ELSE [raised |-> FALSE, value |-> o.time]

\* ---- sparklines (lines 49-98) ----
\* a quantisation without the clamp to the top level
QuantizeNoClamp(v, max_val) == Trunc(v * 8, max_val)
\* idx = min(int((v / max_val) * 8), 8)   (lines 61-62 and 83-84)
Quantize(v, max_val) == Min2(Trunc(v * 8, max_val), 8)

\* max_val of the latency policy (lines 52-54)
LatencyMaxVal(values) ==
  LET latencies == NotNone(values)
  IN Max2(IF latencies # <<>> THEN MaxOf(latencies) ELSE 1, 5)

build_sparkline(hist) ==
  LET values == hist
      max_val == LatencyMaxVal(values)
      cell(v) ==
        IF IsNone(v) THEN [glyph |-> DROP_CHAR, style |-> "bold red"]
        ELSE [glyph |-> Quantize(Val(v), max_val),
              style |-> IF Val(v) > HIGH_LATENCY_MS THEN "yellow" ELSE "cyan"]
      spark == [i \in 1..Len(values) |-> cell(values[i])]
      pad == HISTORY_SIZE - Len(values)
  IN IF pad > 0 THEN Blanks(pad) \o spark ELSE spark

build_vitals_sparkline(hist, session_max) ==
  LET values == hist
      max_val == Max2(session_max, 1)
      cell(v) ==
        [glyph |-> Quantize(v, max_val),
         \* ratio = v / max_val compared with 0.8 and 0.6
         style |-> IF v * 10 > 8 * max_val THEN "red"
                   ELSE IF v * 10 > 6 * max_val THEN "yellow"
                   ELSE "cyan"]
      spark == [i \in 1..Len(values) |-> cell(values[i])]
      pad == VITALS_SPARK_SIZE - Len(values)
  IN IF pad > 0 THEN Blanks(pad) \o spark ELSE spark

\* ---- vitals (lines 103-160) ----
\* round(n / d) to the nearest integer, ties to even, as the "f" format does
RoundDiv(n, d) ==
  LET q == n \div d
      r == n % d
  IN IF 2 * r > d \/ (2 * r = d /\ q % 2 = 1) THEN q + 1 ELSE q

\* the formatted number and its unit; for "G" the number is in tenths
format_bytes(n) ==
  IF n >= 1073741824 THEN <<RoundDiv(n * 10, 1073741824), "G">>
  ELSE IF n >= 1048576 THEN <<RoundDiv(n, 1048576), "M">>
  ELSE IF n >= 1024 THEN <<RoundDiv(n, 1024), "K">>
  ELSE <<n, "B">>

cpu_color(pct) ==
  IF pct > 90 THEN "bold red" ELSE IF pct > 60 THEN "bold yellow" ELSE "bold green"

mem_color(pct) ==
  IF pct > 90 THEN "bold red" ELSE IF pct > 70 THEN "bold yellow" ELSE "bold green"

build_vitals_line(cpu, hist, max, m, read_rate, write_rate) ==
  [cpu_pct |-> cpu, cpu_style |-> cpu_color(cpu),
   cpu_spark |-> build_vitals_sparkline(hist, max),
   mem_pct |-> m, mem_style |-> mem_color(m),
   io_read |-> format_bytes(read_rate),
   io_write |-> format_bytes(write_rate)]

\* ---- panel (lines 165-218) ----
\* drops = sum(1 for v in values if v is None)
CountDrops(values) == Cardinality({i \in 1..Len(values) : IsNone(values[i])})

\* a variant that raises the alert only when the newest sample is a drop
AlertLatestOnly(values) == values # <<>> /\ IsNone(Last(values))
\* alert = drops > 0   (line 170)
Alert(values) == CountDrops(values) > 0

\* a variant that always uses the plural phrase
StatusPhrasePlural(alert, drops, total) ==
  IF alert THEN [count |-> Some(drops), text |-> " drops!"]
  ELSE IF total > 0 THEN [count |-> None, text |-> "0% loss"]
  ELSE [count |-> None, text |-> "waiting"]
\* the trailing status phrase (lines 191-200); count is the number the
\* f-string prints in front of the text, None when the text is a literal
StatusPhrase(alert, drops, total) ==
  IF alert
  THEN IF drops = 1 THEN [count |-> Some(drops), text |-> " drop! "]
       ELSE [count |-> Some(drops), text |-> " drops!"]
  ELSE IF total > 0 THEN [count |-> None, text |-> "0% loss"]
  ELSE [count |-> None, text |-> "waiting"]

build_panel(h, hist, vitals_line) ==
  LET values == hist
      drops == CountDrops(values)
      total == Len(values)
      alert == Alert(values)
      border == IF alert THEN "red" ELSE "green"
      latest == IF values # <<>> THEN Last(values) ELSE None
  IN [title |-> h,
      border_style |-> border,
      width |-> PANEL_WIDTH,
      icon |-> IF alert THEN "warning" ELSE "dot",
      \* f"{latest:.1f}ms" or the literal "timeout  "
      latency_ms |-> latest,
      latency_style |-> IF IsNone(latest) THEN "bold red"
                        ELSE IF Val(latest) > HIGH_LATENCY_MS THEN "bold yellow"
                        ELSE "bold green",
      spark |-> build_sparkline(hist),
      status |-> StatusPhrase(alert, drops, total),
      divider_width |-> IF IsNone(vitals_line) THEN 0 ELSE PANEL_WIDTH - 4,
      vitals |-> vitals_line]

\* ---- the tick's arithmetic (lines 254-282) ----
\* a variant that forgets the running maximum
UpdateMaxForgetful(current, sample, floor) == Max2(sample, floor)
\* max(cpu_max, cpu_pct, 10.0) and max(io_max, io_combined, 1024.0)
UpdateMax(current, sample, floor) == Max3(current, sample, floor)

\* bytes per second from a byte difference over d tenths of a second
PerSecond(bytes, d) == Trunc(bytes * 10, d)

\* a variant of the guard that tests the elapsed time only
IoGuardDtOnly(d, cur, prev) == d > 0
\* dt > 0 and cur_io and prev_io   (line 259)
IoGuard(d, cur, prev) == d > 0 /\ ~IsNone(cur) /\ ~IsNone(prev)

\* lines 259-264; raised = TRUE stands for the AttributeError or
\* ZeroDivisionError that lines 260-261 raise on None or on dt = 0
IoRates(d, cur, prev) ==
  IF IoGuard(d, cur, prev)
  THEN IF IsNone(cur) \/ IsNone(prev) \/ d = 0
       THEN [raised |-> TRUE, read |-> 0, write |-> 0]
       ELSE [raised |-> FALSE,
             read |-> PerSecond(Val(cur).read_bytes - Val(prev).read_bytes, d),
             write |-> PerSecond(Val(cur).write_bytes - Val(prev).write_bytes, d)]
  ELSE [raised |-> FALSE, read |-> 0, write |-> 0]

\* a variant without the lower bound
SleepTimeUnclamped(intv, el) == intv - el
\* max(0, args.interval - elapsed)   (line 282)
SleepTime(intv, el) == Max2(0, intv - el)

\* a variant of the handler that takes the oldest CPU sample
LastCpuOldest(hist) == IF hist # <<>> THEN hist[1] ELSE 0
\* cpu_hist[-1] if cpu_hist else 0   (line 288)
LastCpu(hist) == IF hist # <<>> THEN Last(hist) ELSE 0

\* ---- inputs ----
\* args.host and args.interval (lines 225-226); a negative interval is accepted
Hosts == {"8.8.8.8"}
Intervals == {10, -10}
\* round-trip times a reply can carry, and how long a ping call can take
Latencies == {2, 150}
Durations == {0, 3, 12}
\* psutil.cpu_percent() and psutil.virtual_memory().percent
CpuPercents == {5, 50}
MemPercents == {82}
\* bytes the disks read and write between two readings of the counters
IoDelta == [read_bytes |-> 300, write_bytes |-> 100]

VARIABLES
  \* the environment
  scenario,       \* "short": full input sets; "long": one load pattern, many ticks
  now,            \* time.monotonic()
  disk,           \* the operating system's cumulative I/O counters
  bad,            \* failed pings so far in the long scenario
  \* main's arguments and locals
  host, interval,
  history, cpu_hist, io_hist, cpu_max, io_max,
  prev_io, prev_time,
  t0, latency, cpu_pct, cur_io, dt,
  io_read_rate, io_write_rate, io_combined,
  mem, vitals, elapsed, sleep_time,
  \* the render sink
  live,           \* the panel the Live display holds, None before it starts
  final,          \* the panel printed by the handler, None until then
  nlive,          \* panels handed to the Live display
  nfinal,         \* panels printed to the console
  \* control
  pc,             \* the line main is about to execute, "done" or "crashed"
  ticks,          \* completed iterations of the loop
  \* history of the run, for stating properties
  ping_outcome,   \* what the last ping subprocess did
  lat_log, cpu_log, io_log,   \* every sample appended to each buffer, in order
  stopped_at      \* the line at which the interrupt arrived, None while running

env == <<scenario, now, disk, bad>>
args == <<host, interval>>
hists == <<history, cpu_hist, io_hist>>
maxima == <<cpu_max, io_max>>
prevs == <<prev_io, prev_time>>
cpu_locals == <<cpu_pct>>
io_locals == <<cur_io, dt, io_read_rate, io_write_rate, io_combined>>
time_locals == <<t0, elapsed, sleep_time>>
render_locals == <<mem, vitals>>
sink == <<live, final, nlive, nfinal>>
logs == <<lat_log, cpu_log, io_log>>
vars == <<scenario, now, disk, bad, host, interval, history, cpu_hist, io_hist,
          cpu_max, io_max, prev_io, prev_time, t0, latency, cpu_pct, cur_io, dt,
          io_read_rate, io_write_rate, io_combined, mem, vitals, elapsed,
          sleep_time, live, final, nlive, nfinal, pc, ticks, ping_outcome,
          lat_log, cpu_log, io_log, stopped_at>>

\* the lines of the loop body, in program order
LoopLines == {"L245", "L248", "L249", "L252", "L253", "L254", "L257", "L258",
              "L259", "L265", "L266", "L267", "L268", "L269", "L272", "L274",
              "L279", "L281", "L282", "L283"}
\* the lines inside the try block
Running == {"L243"} \cup LoopLines

\* the state after lines 229-240; a local holds None until it is assigned and
\* Some(value) afterwards
InitWith(sc, intervals, prevs0) ==
  /\ scenario = sc
  /\ now = 0
  /\ disk = [read_bytes |-> 0, write_bytes |-> 0]
  /\ bad = 0
  /\ host \in Hosts
  /\ interval \in intervals
  /\ history = <<>> /\ cpu_hist = <<>> /\ io_hist = <<>>
  /\ cpu_max = 1 /\ io_max = 1
  /\ prev_io \in prevs0
  /\ prev_time = 0
  /\ t0 = None /\ latency = None /\ cpu_pct = None /\ cur_io = None /\ dt = None
  /\ io_read_rate = None /\ io_write_rate = None /\ io_combined = None
  /\ mem = None /\ vitals = None /\ elapsed = None /\ sleep_time = None
  /\ live = None /\ final = None /\ nlive = 0 /\ nfinal = 0
  /\ pc = "L243"
  /\ ticks = 0
  /\ ping_outcome = None
  /\ lat_log = <<>> /\ cpu_log = <<>> /\ io_log = <<>>
  /\ stopped_at = None

\* The priming read of line 239 is taken to return counters; a reading of
\* None, and with it prev_io = None, arises in the loop (lines 257, 268).
Init == InitWith("short", Intervals, {Some([read_bytes |-> 0, write_bytes |-> 0])})
InitLong == InitWith("long", {10}, {Some([read_bytes |-> 0, write_bytes |-> 0])})

\* ---- what the environment can do ----
TickLimit == IF scenario = "short" THEN MaxTicks ELSE MaxLongTicks

\* the ping subprocess: exc, time as for run_ping, and the time the call took.
\* A reply carries a time; a timeout of ping itself, an unreachable host and
\* malformed output give text without one; subprocess.run raises
\* TimeoutExpired when the call outlasts its own timeout and OSError when the
\* process cannot be run.
PingOutcomes ==
  IF scenario = "short"
  THEN {[exc |-> "none", time |-> Some(l), took |-> d] : l \in Latencies, d \in Durations}
       \cup {[exc |-> e, time |-> None, took |-> d] :
               e \in {"none", "TimeoutExpired", "OSError"}, d \in Durations}
  ELSE {[exc |-> "none", time |-> Some(20 + (ticks % 7)), took |-> 3]}
       \cup (IF bad < MaxBad THEN {[exc |-> "none", time |-> None, took |-> 3]} ELSE {})

CpuReadings ==
  IF scenario = "short" THEN CpuPercents ELSE {(ticks * 7) % 100}

\* the counters are cumulative (psutil reports them with nowrap=True): between
\* two readings they advance and never go back
DiskAfter ==
  LET k == IF scenario = "short" THEN 1 ELSE (ticks % 11) + 1
  IN [read_bytes |-> disk.read_bytes + k * IoDelta.read_bytes,
      write_bytes |-> disk.write_bytes + k * IoDelta.write_bytes]

\* psutil.disk_io_counters(): the counters, or None when there are none
IoReadings(d) == IF scenario = "short" THEN {None, Some(d)} ELSE {Some(d)}

\* ---- main (lines 242-293) ----
\* line 243: the Live display starts with the panel of the empty history
EnterLive ==
  /\ pc = "L243"
  /\ live' = Some(build_panel(host, history, None))
  /\ nlive' = nlive + 1
  /\ pc' = "L245"
  /\ UNCHANGED <<env, args, hists, maxima, prevs, latency, cpu_locals, io_locals,
                 time_locals, render_locals, final, nfinal, ticks, ping_outcome,
                 logs, stopped_at>>

\* line 245: t0 = time.monotonic()
StartTick ==
  /\ pc = "L245"
  /\ ticks < TickLimit
  /\ t0' = Some(now)
  /\ pc' = "L248"
  /\ UNCHANGED <<env, args, hists, maxima, prevs, latency, cpu_locals, io_locals,
                 elapsed, sleep_time, render_locals, sink, ticks, ping_outcome,
                 logs, stopped_at>>

\* line 248: latency = run_ping(args.host); an exception that leaves run_ping
\* is not caught by main's handler and ends the program
Ping ==
  /\ pc = "L248"
  /\ \E o \in PingOutcomes :
       LET r == run_ping([exc |-> o.exc, time |-> o.time])
       IN /\ now' = now + o.took
          /\ bad' = IF scenario = "long" /\ IsNone(o.time) THEN bad + 1 ELSE bad
          /\ ping_outcome' = Some([exc |-> o.exc, time |-> o.time])
          /\ IF r.raised
             THEN pc' = "crashed" /\ UNCHANGED latency
             ELSE pc' = "L249" /\ latency' = r.value
  /\ UNCHANGED <<scenario, disk, args, hists, maxima, prevs, cpu_locals, io_locals,
                 time_locals, render_locals, sink, ticks, logs, stopped_at>>

\* line 249: history.append(latency)
AppendLatency ==
  /\ pc = "L249"
  /\ history' = DequeAppend(history, latency, HISTORY_SIZE)
  /\ lat_log' = Append(lat_log, latency)
  /\ ping_outcome' = None
  /\ pc' = "L252"
  /\ UNCHANGED <<env, args, cpu_hist, io_hist, maxima, prevs, latency, cpu_locals,
                 io_locals, time_locals, render_locals, sink, ticks, cpu_log,
                 io_log, stopped_at>>

\* line 252: cpu_pct = psutil.cpu_percent()
ReadCpu ==
  /\ pc = "L252"
  /\ \E c \in CpuReadings : cpu_pct' = Some(c)
  /\ pc' = "L253"
  /\ UNCHANGED <<env, args, hists, maxima, prevs, latency, io_locals, time_locals,
                 render_locals, sink, ticks, ping_outcome, logs, stopped_at>>

\* line 253: cpu_hist.append(cpu_pct)
AppendCpu ==
  /\ pc = "L253"
  /\ cpu_hist' = DequeAppend(cpu_hist, Val(cpu_pct), VITALS_SPARK_SIZE)
  /\ cpu_log' = Append(cpu_log, Val(cpu_pct))
  /\ pc' = "L254"
  /\ UNCHANGED <<env, args, history, io_hist, maxima, prevs, latency, cpu_locals,
                 io_locals, time_locals, render_locals, sink, ticks, ping_outcome,
                 lat_log, io_log, stopped_at>>

\* line 254: cpu_max = max(cpu_max, cpu_pct, 10.0)
UpdateCpuMax ==
  /\ pc = "L254"
  /\ cpu_max' = UpdateMax(cpu_max, Val(cpu_pct), 10)
  /\ pc' = "L257"
  /\ UNCHANGED <<env, args, hists, io_max, prevs, latency, cpu_locals, io_locals,
                 time_locals, render_locals, sink, ticks, ping_outcome, logs,
                 stopped_at>>

\* line 257: cur_io = psutil.disk_io_counters()
ReadIo ==
  /\ pc = "L257"
  /\ disk' = DiskAfter
  /\ \E r \in IoReadings(DiskAfter) : cur_io' = r
  /\ pc' = "L258"
  /\ UNCHANGED <<scenario, now, bad, args, hists, maxima, prevs, latency,
                 cpu_locals, dt, io_read_rate, io_write_rate, io_combined,
                 time_locals, render_locals, sink, ticks, ping_outcome, logs,
                 stopped_at>>

\* line 258: dt = time.monotonic() - prev_time
ComputeDt ==
  /\ pc = "L258"
  /\ dt' = Some(now - prev_time)
  /\ pc' = "L259"
  /\ UNCHANGED <<env, args, hists, maxima, prevs, latency, cpu_locals, cur_io,
                 io_read_rate, io_write_rate, io_combined, time_locals,
                 render_locals, sink, ticks, ping_outcome, logs, stopped_at>>

\* lines 259-264: the two rates; an exception raised here ends the program
ComputeRates ==
  /\ pc = "L259"
  /\ LET r == IoRates(Val(dt), cur_io, prev_io)
     IN IF r.raised
        THEN pc' = "crashed" /\ UNCHANGED <<io_read_rate, io_write_rate>>
        ELSE /\ pc' = "L265"
             /\ io_read_rate' = Some(r.read)
             /\ io_write_rate' = Some(r.write)
  /\ UNCHANGED <<env, args, hists, maxima, prevs, latency, cpu_locals, cur_io, dt,
                 io_combined, time_locals, render_locals, sink, ticks,
                 ping_outcome, logs, stopped_at>>

\* line 265: io_combined = io_read_rate + io_write_rate
CombineIo ==
  /\ pc = "L265"
  /\ io_combined' = Some(Val(io_read_rate) + Val(io_write_rate))
  /\ pc' = "L266"
  /\ UNCHANGED <<env, args, hists, maxima, prevs, latency, cpu_locals, cur_io, dt,
                 io_read_rate, io_write_rate, time_locals, render_locals, sink,
                 ticks, ping_outcome, logs, stopped_at>>

\* line 266: io_hist.append(io_combined)
AppendIo ==
  /\ pc = "L266"
  /\ io_hist' = DequeAppend(io_hist, Val(io_combined), VITALS_SPARK_SIZE)
  /\ io_log' = Append(io_log, Val(io_combined))
  /\ pc' = "L267"
  /\ UNCHANGED <<env, args, history, cpu_hist, maxima, prevs, latency, cpu_locals,
                 io_locals, time_locals, render_locals, sink, ticks, ping_outcome,
                 lat_log, cpu_log, stopped_at>>

\* line 267: io_max = max(io_max, io_combined, 1024.0)
UpdateIoMax ==
  /\ pc = "L267"
  /\ io_max' = UpdateMax(io_max, Val(io_combined), 1024)
  /\ pc' = "L268"
  /\ UNCHANGED <<env, args, hists, cpu_max, prevs, latency, cpu_locals, io_locals,
                 time_locals, render_locals, sink, ticks, ping_outcome, logs,
                 stopped_at>>

\* line 268: prev_io = cur_io
SavePrevIo ==
  /\ pc = "L268"
  /\ prev_io' = cur_io
  /\ pc' = "L269"
  /\ UNCHANGED <<env, args, hists, maxima, prev_time, latency, cpu_locals,
                 io_locals, time_locals, render_locals, sink, ticks, ping_outcome,
                 logs, stopped_at>>

\* line 269: prev_time = time.monotonic()
SavePrevTime ==
  /\ pc = "L269"
  /\ prev_time' = now
  /\ pc' = "L272"
  /\ UNCHANGED <<env, args, hists, maxima, prev_io, latency, cpu_locals, io_locals,
                 time_locals, render_locals, sink, ticks, ping_outcome, logs,
                 stopped_at>>

\* line 272: mem = psutil.virtual_memory()
ReadMem ==
  /\ pc = "L272"
  /\ \E m \in MemPercents : mem' = Some(m)
  /\ pc' = "L274"
  /\ UNCHANGED <<env, args, hists, maxima, prevs, latency, cpu_locals, io_locals,
                 time_locals, vitals, sink, ticks, ping_outcome, logs, stopped_at>>

\* lines 274-278: vitals = build_vitals_line(...)
ComposeVitals ==
  /\ pc = "L274"
  /\ vitals' = Some(build_vitals_line(Val(cpu_pct), cpu_hist, cpu_max, Val(mem),
                                      Val(io_read_rate), Val(io_write_rate)))
  /\ pc' = "L279"
  /\ UNCHANGED <<env, args, hists, maxima, prevs, latency, cpu_locals, io_locals,
                 time_locals, mem, sink, ticks, ping_outcome, logs, stopped_at>>

\* line 279: live.update(build_panel(args.host, history, vitals))
Publish ==
  /\ pc = "L279"
  /\ live' = Some(build_panel(host, history, vitals))
  /\ nlive' = nlive + 1
  /\ pc' = "L281"
  /\ UNCHANGED <<env, args, hists, maxima, prevs, latency, cpu_locals, io_locals,
                 time_locals, render_locals, final, nfinal, ticks, ping_outcome,
                 logs, stopped_at>>

\* line 281: elapsed = time.monotonic() - t0
ComputeElapsed ==
  /\ pc = "L281"
  /\ elapsed' = Some(now - Val(t0))
  /\ pc' = "L282"
  /\ UNCHANGED <<env, args, hists, maxima, prevs, latency, cpu_locals, io_locals,
                 t0, sleep_time, render_locals, sink, ticks, ping_outcome, logs,
                 stopped_at>>

\* line 282: sleep_time = max(0, args.interval - elapsed)
ComputeSleep ==
  /\ pc = "L282"
  /\ sleep_time' = Some(SleepTime(interval, Val(elapsed)))
  /\ pc' = "L283"
  /\ UNCHANGED <<env, args, hists, maxima, prevs, latency, cpu_locals, io_locals,
                 t0, elapsed, render_locals, sink, ticks, ping_outcome, logs,
                 stopped_at>>

\* line 283: time.sleep(sleep_time), then the next iteration; a negative
\* argument makes time.sleep raise ValueError, which ends the program
Sleep ==
  /\ pc = "L283"
  /\ IF Val(sleep_time) < 0
     THEN pc' = "crashed" /\ UNCHANGED <<now, ticks>>
     ELSE /\ now' = now + Val(sleep_time)
          /\ ticks' = ticks + 1
          /\ pc' = "L245"
  /\ UNCHANGED <<scenario, disk, bad, args, hists, maxima, prevs, latency,
                 cpu_locals, io_locals, time_locals, render_locals, sink,
                 ping_outcome, logs, stopped_at>>

\* lines 284-293: KeyboardInterrupt raised at any line inside the try block;
\* the handler reads memory, takes the newest CPU sample and prints one panel
KeyboardInterrupt ==
  /\ pc \in Running
  /\ \E m \in MemPercents :
       LET c == LastCpu(cpu_hist)
           v == build_vitals_line(c, cpu_hist, cpu_max, m, 0, 0)
       IN /\ mem' = Some(m)
          /\ cpu_pct' = Some(c)
          /\ vitals' = Some(v)
          /\ final' = Some(build_panel(host, history, Some(v)))
  /\ nfinal' = nfinal + 1
  /\ stopped_at' = Some(pc)
  /\ pc' = "done"
  /\ UNCHANGED <<env, args, hists, maxima, prevs, latency, io_locals, time_locals,
                 live, nlive, ticks, ping_outcome, logs>>

Next ==
  \/ EnterLive \/ StartTick \/ Ping \/ AppendLatency
  \/ ReadCpu \/ AppendCpu \/ UpdateCpuMax
  \/ ReadIo \/ ComputeDt \/ ComputeRates \/ CombineIo \/ AppendIo \/ UpdateIoMax
  \/ SavePrevIo \/ SavePrevTime
  \/ ReadMem \/ ComposeVitals \/ Publish
  \/ ComputeElapsed \/ ComputeSleep \/ Sleep
  \/ KeyboardInterrupt

Spec == Init /\ [][Next]_vars
SpecLong == InitLong /\ [][Next]_vars


\* ==== properties ====

\* the number of each line, for "before" and "after" within an iteration
LineNo == [L243 |-> 243, L245 |-> 245, L248 |-> 248, L249 |-> 249, L252 |-> 252,
           L253 |-> 253, L254 |-> 254, L257 |-> 257, L258 |-> 258, L259 |-> 259,
           L265 |-> 265, L266 |-> 266, L267 |-> 267, L268 |-> 268, L269 |-> 269,
           L272 |-> 272, L274 |-> 274, L279 |-> 279, L281 |-> 281, L282 |-> 282,
           L283 |-> 283]
\* the line main is at, or was at when the interrupt arrived
AtLine == IF pc = "done" THEN LineNo[Val(stopped_at)] ELSE LineNo[pc]
\* the last s elements of a sequence
Suffix(log, n) == SubSeq(log, Len(log) - n + 1, Len(log))
\* the number of dropped samples of a sequence, counted element by element
RECURSIVE NumDrops(_)
NumDrops(s) ==
  IF s = <<>> THEN 0 ELSE (IF IsNone(s[1]) THEN 1 ELSE 0) + NumDrops(Tail(s))
\* the samples a display window of the given capacity holds after the log
Window(log, cap) == Suffix(log, Min2(Len(log), cap))

\* The panel of the Live display was composed from the histories as they are
\* now: between its publication and the next append.
LiveIsCurrent ==
  pc \in {"L281", "L282", "L283"} \/ (pc \in {"L245", "L248", "L249"})
\* The panels that can be compared with the present histories.
CurrentPanels ==
  (IF pc \in Running /\ LiveIsCurrent THEN {Val(live)} ELSE {})
  \cup (IF pc = "done" THEN {Val(final)} ELSE {})

TypeOK ==
  /\ pc \in Running \cup {"done", "crashed"}
  /\ ticks \in 0..TickLimit
  /\ (pc = "done") = (stopped_at # None)
  /\ (pc = "done") = (final # None)

\* C1: each history buffer holds exactly the min(N, capacity) most recent of the
\* N samples appended to it, oldest first, and never more than its capacity.
BufferLaw(buf, log, cap) ==
  /\ Len(buf) = Min2(Len(log), cap)
  /\ Len(buf) <= cap
  /\ buf = Suffix(log, Len(buf))
C1_BoundedHistories ==
  /\ BufferLaw(history, lat_log, HISTORY_SIZE)
  /\ BufferLaw(cpu_hist, cpu_log, VITALS_SPARK_SIZE)
  /\ BufferLaw(io_hist, io_log, VITALS_SPARK_SIZE)
  /\ pc # "crashed" => Len(lat_log) \in {ticks, ticks + 1}
\* all three buffers have evicted, and the evicted latency sample was a drop
C1_Witness ==
  /\ Len(lat_log) = HISTORY_SIZE + 1
  /\ IsNone(lat_log[1]) /\ NumDrops(history) = 0
  /\ Len(history) = HISTORY_SIZE
  /\ Len(io_log) = HISTORY_SIZE + 1 /\ Len(io_hist) = VITALS_SPARK_SIZE
  /\ Len(cpu_log) = HISTORY_SIZE + 1 /\ Len(cpu_hist) = VITALS_SPARK_SIZE

\* the session maxima have been through their first update (lines 254, 267)
CpuMaxUpdated == ticks >= 1 \/ AtLine > 254
IoMaxUpdated == ticks >= 1 \/ AtLine > 267
\* no step lowers a maximum, and each update step yields
\* max(previous maximum, new sample, floor)
MaximaStep ==
  /\ cpu_max' >= cpu_max
  /\ io_max' >= io_max
  /\ (pc = "L254" /\ pc' = "L257") => cpu_max' = Max3(cpu_max, Val(cpu_pct), 10)
  /\ (pc = "L267" /\ pc' = "L268") => io_max' = Max3(io_max, Val(io_combined), 1024)

LivePublished(line) ==
  (IF line > 243 THEN 1 ELSE 0) + ticks + (IF line > 279 THEN 1 ELSE 0)

TickComplete ==
  /\ Len(lat_log) = Len(cpu_log)
  /\ Len(cpu_log) = Len(io_log)
  /\ cpu_log # <<>> => cpu_max >= Max2(cpu_log[Len(cpu_log)], 10)
  /\ io_log # <<>> => io_max >= Max2(io_log[Len(io_log)], 1024)

\* C4: every panel handed to the render sink, the final one included, is
\* composed from a state in which all acquisitions of a tick have completed.
\* (A panel is handed over by line 243, by line 279 and by the handler.)
C4_NoTornPanel ==
  /\ (pc = "L245" /\ ticks = 0) => TickComplete
  /\ pc = "L281" => TickComplete
  /\ pc = "done" => TickComplete

\* the ping subprocess gave no round-trip time
PingFailed(o) == o.exc # "none" \/ IsNone(o.time)
\* a step of the loop other than the interrupt
LoopStep ==
  \/ EnterLive \/ StartTick \/ Ping \/ AppendLatency
  \/ ReadCpu \/ AppendCpu \/ UpdateCpuMax
  \/ ReadIo \/ ComputeDt \/ ComputeRates \/ CombineIo \/ AppendIo \/ UpdateIoMax
  \/ SavePrevIo \/ SavePrevTime
  \/ ReadMem \/ ComposeVitals \/ Publish
  \/ ComputeElapsed \/ ComputeSleep \/ Sleep

C6_AlertIffDropInWindow ==
  \A p \in CurrentPanels :
    LET alert == NumDrops(Window(lat_log, HISTORY_SIZE)) > 0
    IN /\ (p.icon = "warning") = alert
       /\ p.border_style = (IF alert THEN "red" ELSE "green")
\* the only drop is the oldest of a full window, 29 replies later: still red
C6_Witness ==
  /\ pc = "L281"
  /\ Len(history) = HISTORY_SIZE
  /\ IsNone(history[1]) /\ NumDrops(history) = 1
  /\ Val(live).border_style = "red"
  /\ Val(live).latency_ms # None

\* C7: the rates computed by lines 259-264 are non-negative, and both are
\* zero when dt <= 0 or the previous or the current counter reading is None;
\* the computation raises no error.
C7_IoRates ==
  /\ pc # "crashed"
  /\ pc = "L265" =>
       /\ Val(io_read_rate) >= 0
       /\ Val(io_write_rate) >= 0
       /\ (Val(dt) <= 0 \/ IsNone(cur_io) \/ IsNone(prev_io)) =>
            (Val(io_read_rate) = 0 /\ Val(io_write_rate) = 0)
\* no time has passed since the previous reading although the counters moved
C7_Witness ==
  /\ pc = "L265"
  /\ Val(dt) = 0
  /\ ~IsNone(cur_io) /\ ~IsNone(prev_io)
  /\ Val(cur_io).read_bytes > Val(prev_io).read_bytes
  /\ Val(io_read_rate) = 0 /\ Val(io_write_rate) = 0

\* C8: in every panel the glyph of each non-dropped latency sample and of each
\* CPU sample is one of the levels 0..8, and within one sparkline a smaller
\* sample never has a higher level than a larger one.
\* (The IO history is appended to but never rendered: lines 274-278, 289-292.)
LevelsOk(cells, values, pad) ==
  /\ Len(cells) = pad + Len(values)
  /\ \A i \in 1..Len(values) :
       ~IsNone(values[i]) => cells[pad + i].glyph \in 0..8
  /\ \A i, j \in 1..Len(values) :
       (~IsNone(values[i]) /\ ~IsNone(values[j]) /\ Val(values[i]) < Val(values[j]))
         => cells[pad + i].glyph <= cells[pad + j].glyph
C8_GlyphLevels ==
  \A p \in CurrentPanels :
    /\ LevelsOk(p.spark, history, HISTORY_SIZE - Len(history))
    /\ p.vitals # None =>
         LevelsOk(Val(p.vitals).cpu_spark, [i \in 1..Len(cpu_hist) |-> Some(cpu_hist[i])],
                  VITALS_SPARK_SIZE - Len(cpu_hist))
\* the final panel of a run interrupted before line 254 raised the maximum:
\* the CPU sample is above the scale and its glyph is the top level
C8_Witness ==
  /\ pc = "done"
  /\ cpu_hist = <<50>> /\ cpu_max = 1
  /\ Val(Val(final).vitals).cpu_spark[VITALS_SPARK_SIZE].glyph = 8

\* C9: the status phrase of a panel follows from its latency window:
\* "waiting" when it is empty, "0% loss" when it holds samples and no drop,
\* "1 drop! " for one drop and "N drops!" with the exact count for N >= 2.
C9_StatusPhrase ==
  \A p \in CurrentPanels :
    LET w == Window(lat_log, HISTORY_SIZE)
        n == NumDrops(w)
    IN /\ w = <<>> => p.status = [count |-> None, text |-> "waiting"]
       /\ (w # <<>> /\ n = 0) => p.status = [count |-> None, text |-> "0% loss"]
       /\ n = 1 => p.status = [count |-> Some(1), text |-> " drop! "]
       /\ n >= 2 => p.status = [count |-> Some(n), text |-> " drops!"]
\* two failed pings in a row
C9_Witness ==
  /\ pc = "L281"
  /\ history = <<None, None>>
  /\ Val(live).status = [count |-> Some(2), text |-> " drops!"]

\* C10: the sleep computed by line 282 is interval - elapsed when the tick
\* took no longer than the interval and 0 otherwise, never negative, where
\* elapsed is the clock at the end of the publish minus the clock at the start
\* of the tick; line 283 then sleeps for just that long.
C10_SleepTime ==
  /\ pc # "crashed"
  /\ pc = "L283" =>
       /\ Val(elapsed) = now - Val(t0)
       /\ Val(sleep_time) >= 0
       /\ Val(sleep_time) =
            (IF Val(elapsed) <= interval THEN interval - Val(elapsed) ELSE 0)
       /\ (interval = 10 /\ Val(elapsed) = 3) => Val(sleep_time) = 7
       /\ (interval = 10 /\ Val(elapsed) = 12) => Val(sleep_time) = 0
  /\ (pc = "L245" /\ ticks > 0) => now = Val(t0) + Val(elapsed) + Val(sleep_time)
\* processing took 1.2 s of a 1.0 s interval
C10_Witness ==
  /\ pc = "L283"
  /\ interval = 10 /\ Val(elapsed) = 12
  /\ Val(sleep_time) = 0

====
